---- MODULE Spec2Model ----
(***************************************************************************)
(* Model of the backup client of go-backup-system: the Service of         *)
(* backup-client/internal/backup (Run, Stop, the restore operations,      *)
(* RecoverCatalog) and the Catalog of backup-client/internal/catalog      *)
(* (both are in src/backup-client/internal/backup/service.go).            *)
(*                                                                         *)
(* Time is counted in ticks of 1/TicksPerSec second.  Sizes are counted   *)
(* in MiB.  A path is the sequence of its characters.  A catalog is the   *)
(* sequence of the rows of table dosyalar in rowid order.                 *)
(***************************************************************************)
EXTENDS Integers, Sequences, FiniteSets, TLC

\* ------------------------------------------------------------------ bounds
TicksPerSec == 2
MaxTime == 3
MaxRows == 2

\* -------------------------------------------------------- program constants
maxTarSize == 25

\* ------------------------------------------------------------------ domain
Callers == {"c1", "c2"}

RootD == <<"/", "d">>
PathA == <<"/", "d", "/", "a">>
PathB == <<"/", "d", "/", "b">>
Paths == {PathA, PathB}
Contents == {1, 2}
NoFile == 0

Times == 0..MaxTime
\* the instants a user can ask for: the UI strings carry whole seconds
WholeSeconds == {t \in Times : t % TicksPerSec = 0}

\* ------------------------------------------------------------- sequences
RECURSIVE MaxOf(_)
MaxOf(S) ==
    LET x == CHOOSE y \in S : TRUE
    IN IF S = {x} THEN x
       ELSE LET m == MaxOf(S \ {x}) IN IF x > m THEN x ELSE m

Range(s) == {s[k] : k \in 1..Len(s)}

\* how many times row r occurs in the catalog
CountOf(cat, r) == Cardinality({k \in 1..Len(cat) : cat[k] = r})

\* multi-set inclusion and equality of two catalogs
SubBag(c1, c2) == \A r \in Range(c1) : CountOf(c1, r) <= CountOf(c2, r)
SameBag(c1, c2) == SubBag(c1, c2) /\ SubBag(c2, c1)

\* --------------------------------------------------------------- crypto
\* SHA-224 of the path and SHA-256 of the content, taken as collision free
HashPath(p) == <<"sha224", p>>
HashFileContent(c) == <<"sha256", c>>

\* bytes of the plaintext and of the sealed file (gzip, nonce, tag), in MiB
SizeOf(c) == IF c = 1 THEN 14 ELSE 30
EncryptFile(c) == IF c = 1 THEN 13 ELSE 26

\* gzip and AES-256-GCM under the key of the passphrase: what is sealed can
\* be read only by opening it
CompressAndEncrypt(data) == <<"gcm", data>>
DecryptAndDecompress(sealed) == sealed[2]

\* ------------------------------------------------------------------ paths
IsPrefix(d, p) == Len(d) <= Len(p) /\ SubSeq(p, 1, Len(d)) = d

LastSlash(p) == MaxOf({k \in 1..Len(p) : p[k] = "/"})
\* filepath.Dir of an absolute path
DirOf(p) == IF LastSlash(p) = 1 THEN <<"/">> ELSE SubSeq(p, 1, LastSlash(p) - 1)

\* --------------------------------------------------------------- catalog
FileEntry(ts, p, h, size, packed) ==
    [Timestamp |-> ts, Directory |-> DirOf(p), OrigPath |-> p,
     HashedName |-> HashPath(p), ContentHash |-> h,
     Size |-> size, PackedSize |-> packed]

NoEntry == [Timestamp |-> -1]

\* the rows of path p
RowsOf(cat, p) == SelectSeq(cat, LAMBDA r : r.OrigPath = p)

\* ORDER BY tarih DESC LIMIT 1 over a set of rows
TopByTime(S) ==
    IF S = {} THEN NoEntry
    ELSE CHOOSE r \in S : \A q \in S : q.Timestamp <= r.Timestamp

GetLatestVersion(cat, p) == TopByTime(Range(RowsOf(cat, p)))

\* NeedsBackup that never looks at the catalog
NeedsBackupAlways(cat, p, currentHash) == TRUE

NeedsBackup(cat, p, currentHash) ==
    LET latest == GetLatestVersion(cat, p)
    IN IF latest = NoEntry THEN TRUE
       ELSE IF latest.ContentHash # currentHash THEN TRUE
       ELSE FALSE

\* GetFileAtTime without the second added to targetTime
GetFileAtTimeNoBuffer(cat, p, targetTime) ==
    TopByTime({r \in Range(cat) : r.OrigPath = p /\ r.Timestamp <= targetTime})

GetFileAtTime(cat, p, targetTime) ==
    LET searchTime == targetTime + TicksPerSec
    IN TopByTime({r \in Range(cat) : r.OrigPath = p /\ r.Timestamp <= searchTime})

\* the greatest timestamp, at or before limit, of the rows of path p: the
\* subquery SELECT MAX(tarih) ... WHERE adi = p AND tarih <= limit; -1 when
\* p has no such row
MaxTarih(cat, p, limit) ==
    LET ts == {cat[k].Timestamp : k \in {j \in 1..Len(cat) :
                  cat[j].OrigPath = p /\ cat[j].Timestamp <= limit}}
    IN IF ts = {} THEN -1 ELSE MaxOf(ts)

\* GROUP BY adi: of the rows at the indices in sel, one row for each path.
\* SQLite takes the bare columns from one row of the group; the rows of a
\* group differ only when two versions of a path share a timestamp, and the
\* first row of the group stands for it here
GroupByAdi(cat, sel) ==
    LET keep == {k \in sel : \A j \in sel : cat[j].OrigPath = cat[k].OrigPath => k <= j}
        RECURSIVE Rows(_)
        Rows(k) == IF k > Len(cat) THEN <<>>
                   ELSE (IF k \in keep THEN <<cat[k]>> ELSE <<>>) \o Rows(k + 1)
    IN Rows(1)

\* the join of dosyalar with the greatest timestamp of each path at or
\* before targetTime: every row that has that timestamp, nothing grouped
GetFilesAtTime(cat, targetTime) ==
    SelectSeq(cat, LAMBDA r : r.Timestamp = MaxTarih(cat, r.OrigPath, targetTime))

\* ASCII case folding of SQLite's LIKE
Lower(ch) == IF ch = "D" THEN "d" ELSE ch

\* adi LIKE dirPath || '%': the characters of dirPath match without regard
\* to ASCII case and '_' matches any one character (dirPath holds no '%')
Like(dirPath, p) ==
    /\ Len(dirPath) <= Len(p)
    /\ \A k \in 1..Len(dirPath) :
          dirPath[k] = "_" \/ Lower(dirPath[k]) = Lower(p[k])

GetFilesInDirAtTime(cat, dirPath, targetTime) ==
    LET searchTime == targetTime + TicksPerSec
    IN GroupByAdi(cat, {k \in 1..Len(cat) :
          /\ Like(dirPath, cat[k].OrigPath)
          /\ cat[k].Timestamp = MaxTarih(cat, cat[k].OrigPath, searchTime)})

\* what the UI lists of a file
CatalogFileInfo(r, versionCount) ==
    [OrigPath |-> r.OrigPath, Directory |-> r.Directory,
     LatestVersion |-> r.Timestamp, Size |-> r.Size,
     VersionCount |-> versionCount]

\* GetFilesAtTimestamp: one row for each path, with the number of its
\* versions up to searchTime; the order of the rows is left out
GetFilesAtTimestamp(cat, ts) ==
    LET searchTime == ts + TicksPerSec
        rows == GroupByAdi(cat, {k \in 1..Len(cat) :
                   cat[k].Timestamp = MaxTarih(cat, cat[k].OrigPath, searchTime)})
    IN {CatalogFileInfo(rows[k],
            Cardinality({j \in 1..Len(cat) :
                /\ cat[j].OrigPath = rows[k].OrigPath
                /\ cat[j].Timestamp <= searchTime})) : k \in 1..Len(rows)}

\* what GetFileHistory scans of a row
FileVersion(r) ==
    [Timestamp |-> r.Timestamp, ContentHash |-> r.ContentHash, Size |-> r.Size]

\* GetFileHistory: the versions of path p; their order is left out
GetFileHistory(cat, p) == {FileVersion(r) : r \in Range(RowsOf(cat, p))}

\* GetBackupDates: SELECT DISTINCT tarih; the order is left out
GetBackupDates(cat) == {r.Timestamp : r \in Range(cat)}

\* AddEntries without the transaction: the inserts before the failure stay
AddEntriesNoTx(cat, entries, failAt) ==
    cat \o SubSeq(entries, 1, IF failAt = 0 THEN Len(entries) ELSE failAt - 1)

\* AddEntries: the inserts of one transaction, failing at insert failAt
\* (1..Len) or at the commit (Len + 1); failAt = 0 is a run without failure
AddEntries(cat, entries, failAt) ==
    LET inserted == SubSeq(entries, 1, IF failAt = 0 THEN Len(entries) ELSE failAt - 1)
        committed == failAt = 0
    IN IF committed THEN cat \o inserted   \* tx.Commit()
       ELSE cat                            \* tx.Rollback(), or the commit failed

AddEntry(cat, entry) == Append(cat, entry)

UpdatePackedSize(cat, origPath, packedSize) ==
    [k \in 1..Len(cat) |->
        IF cat[k].OrigPath = origPath
        THEN [cat[k] EXCEPT !.PackedSize = packedSize]
        ELSE cat[k]]

ClearAll(cat) == <<>>

\* a time.Time as the driver writes it into a TIMESTAMP column: the second
\* and the fraction of the second; and as rows.Scan reads it back
TimeToColumn(t) == <<t \div TicksPerSec, t % TicksPerSec>>
ColumnToTime(x) == x[1] * TicksPerSec + x[2]

\* one row as rows.Scan reads its seven columns and stmt.Exec writes them
CopyRow(r) ==
    [Timestamp |-> ColumnToTime(TimeToColumn(r.Timestamp)),
     Directory |-> r.Directory, OrigPath |-> r.OrigPath,
     HashedName |-> r.HashedName, ContentHash |-> r.ContentHash,
     Size |-> r.Size, PackedSize |-> r.PackedSize]

\* an export that keeps the timestamps to the second
ExportToFileWholeSeconds(cat) ==
    [k \in 1..Len(cat) |->
        [cat[k] EXCEPT !.Timestamp = (@ \div TicksPerSec) * TicksPerSec]]

\* ExportToFile copies every row into a new database file
ExportToFile(cat) == [k \in 1..Len(cat) |-> CopyRow(cat[k])]

\* ImportFromFile: INSERT OR REPLACE of every row of the source file in one
\* transaction; table dosyalar has no PRIMARY KEY and no UNIQUE index, so
\* no row ever conflicts and each INSERT OR REPLACE adds a row.
\* failAt = 0: no failure; failAt = k > 0: Scan or Exec fails at row k, or
\* the commit fails (k = Len(src) + 1), the transaction is rolled back;
\* failAt = -k: rows.Next() fails before row k of the source, which ends
\* the loop like the end of the rows, rows.Err() is not consulted and the
\* rows read so far are committed
ImportFromFile(cat, src, failAt) ==
    LET read == IF failAt = 0 THEN Len(src)
                ELSE IF failAt > 0 THEN failAt - 1 ELSE (0 - failAt) - 1
        inserted == [k \in 1..read |-> CopyRow(src[k])]
        committed == failAt <= 0
    IN IF committed THEN cat \o inserted ELSE cat


\* ================================================================= state
VARIABLES
    now,         \* the last reading of the wall clock, in ticks
    config,      \* config.Config: DeviceID, EncryptionKey, BackupDirs
    catalog,     \* rows of the local catalog (butun.katalog)
    isRunning,   \* Service.isRunning
    shouldStop,  \* Service.shouldStop
    call,        \* call[c]: the operation caller c is in, with its locals
    server,      \* what the server stores: uploaded shards, catalog snapshots
    recov,       \* the RecoverCatalog goroutine
    sessions,    \* history: backupID and timestamp of every session so far
    OnProgress,  \* Service.OnProgress: the sink emitProgress calls
    returned     \* history: the call that returned in the last step, if any

vars == <<now, config, catalog, isRunning, shouldStop, call, server,
          recov, sessions, OnProgress, returned>>

\* a caller before its call
IdleCall ==
    [op |-> "none", pc |-> "idle",
     backupID |-> -1, work |-> <<>>, seenPaths |-> {}, filesToBackup |-> <<>>,
     i |-> 0, timestamp |-> -1, catalogEntries |-> <<>>,
     tarSize |-> 0, tarPart |-> 0, tar |-> <<>>,
     tarBroken |-> FALSE, uploaded |-> <<>>, phases |-> <<>>,
     target |-> <<>>, files |-> <<>>, request |-> <<>>, members |-> <<>>,
     written |-> {},
     log |-> <<>>, before |-> <<>>, lookupFailed |-> {}, changed |-> {}]

\* a caller after its call: every caller makes one call
DoneCall == [IdleCall EXCEPT !.pc = "done"]

NoReturn == [op |-> "none"]

\* emitProgress: the phase joins the phases the sink has seen of this call;
\* a phase emitted again right after itself is kept once
Emit(phases, phase) ==
    IF phases # <<>> /\ phases[Len(phases)] = phase THEN phases
    ELSE Append(phases, phase)

\* the return of caller c's operation with the given result; log and phases
\* are the history of the call up to the return
ReturnWith(c, result, log, phases) ==
    [op |-> call[c].op, caller |-> c, result |-> result, log |-> log,
     before |-> call[c].before, lookupFailed |-> call[c].lookupFailed,
     changed |-> call[c].changed, seenPaths |-> call[c].seenPaths,
     filesToBackup |-> call[c].filesToBackup,
     timestamp |-> call[c].timestamp, catalogEntries |-> call[c].catalogEntries,
     uploaded |-> call[c].uploaded, phases |-> phases,
     target |-> call[c].target, files |-> call[c].files,
     request |-> call[c].request, written |-> call[c].written]

\* an entry that leaves shouldStop as the last Stop left it
KeptOnEntry == shouldStop

\* every admitted operation sets s.shouldStop = false with isRunning, under
\* s.mu
ClearedOnEntry == FALSE

\* an operation that leaves the flag as it set it
LeftOnReturn == TRUE

\* the deferred function of every admitted operation: s.isRunning = false
\* under s.mu, on every return
ClearedOnReturn == FALSE

\* every operation emits phase complete before it returns nil
Return(c, result, log) ==
    ReturnWith(c, result, log,
               IF result = "ok" THEN Emit(call[c].phases, "complete")
               ELSE call[c].phases)

\* the sinks the App installs: a closure that emits the progress on the
\* event backup:progress (StartBackup) or restore:progress (StartRestore,
\* RestoreToDate, RestoreFile, RestoreDirectory)
NoSink == "nil"

EventOf(op) == IF op = "Run" THEN "backup:progress" ELSE "restore:progress"

\* the goroutine of the App handler assigns a.backup.OnProgress and then
\* calls the operation. The assignment takes no lock: while a session runs
\* and reads the field in emitProgress it is a data race, and the session
\* calls the old sink or the new one
InstallSink(op) ==
    IF isRunning
    THEN OnProgress' \in {OnProgress, EventOf(op)}
    ELSE OnProgress' = EventOf(op)

\* a call that found isRunning set: it returns the busy error at once
ReturnBusy(c, op) ==
    [op |-> op, caller |-> c, result |-> "busy", log |-> <<>>,
     before |-> catalog, lookupFailed |-> {},
     changed |-> {}, seenPaths |-> {}, filesToBackup |-> <<>>,
     timestamp |-> -1, catalogEntries |-> <<>>,
     uploaded |-> <<>>,
     phases |-> IF op = "Run" THEN <<"starting">> ELSE <<>>,
     target |-> <<>>, files |-> <<>>, request |-> <<>>, written |-> {}]

Configs ==
    { [DeviceID |-> 1, EncryptionKey |-> "pw", BackupDirs |-> <<RootD>>],
      [DeviceID |-> 0, EncryptionKey |-> "pw", BackupDirs |-> <<RootD>>],
      [DeviceID |-> 1, EncryptionKey |-> "",   BackupDirs |-> <<RootD>>],
      [DeviceID |-> 1, EncryptionKey |-> "pw", BackupDirs |-> <<>>] }

Init ==
    /\ now = 0
    /\ config \in Configs
    /\ catalog = <<>>
    /\ isRunning = FALSE
    /\ shouldStop = FALSE
    /\ call = [c \in Callers |-> IdleCall]
    /\ server = [shards |-> {}, catalogs |-> <<>>]
    /\ recov = [pc |-> "idle", urls |-> <<>>, intoEmpty |-> FALSE]
    /\ sessions = <<>>
    /\ OnProgress = NoSink
    /\ returned = NoReturn

\* time.Now().Format("20060102-150405"): the instant cut to the whole second
FormatSessionID(t) == t \div TicksPerSec

\* the working directory of the process
Cwd == <<"/">>

\* a path taken as it is given
AsGiven(p) == p

\* filepath.Abs: a relative path is joined to the working directory
Abs(p) == IF p # <<>> /\ p[1] = "/" THEN p ELSE Cwd \o p

\* filepath.Join of a directory and a path below it
Join(dir, rel) ==
    IF dir[Len(dir)] = "/" THEN dir \o rel ELSE dir \o <<"/">> \o rel

\* filepath.Walk of one root: the files under it, in lexical order, each
\* path being the root as it is given joined with the path below it
Walk(root) ==
    LET \* the file system opens a relative root from the working directory
        dir == IF root[1] = "/" THEN root ELSE Cwd \o root
        prefix == Join(dir, <<>>)
        under == SelectSeq(<<PathA, PathB>>, LAMBDA p : IsPrefix(prefix, p))
    IN [k \in 1..Len(under) |->
           Join(root, SubSeq(under[k], Len(prefix) + 1, Len(under[k])))]

RECURSIVE WalkAll(_)
WalkAll(dirs) ==
    IF dirs = <<>> THEN <<>> ELSE Walk(Head(dirs)) \o WalkAll(Tail(dirs))

\* time.Now(): the clock never runs backwards, and what happens between two
\* readings of it takes no state of its own
ClockReadings == now..MaxTime

\* Run without the test of isRunning
RunEnterUnguarded(c) ==
    /\ call[c].pc = "idle"
    /\ InstallSink("Run")
    /\ isRunning' = TRUE
    /\ shouldStop' = ClearedOnEntry
    /\ call' = [call EXCEPT ![c] =
                  [IdleCall EXCEPT !.op = "Run", !.pc = "preflight",
                                   !.phases = <<"starting">>,
                                   !.before = catalog]]
    /\ returned' = NoReturn
    /\ UNCHANGED <<now, config, catalog, server, recov, sessions>>

\* ------------------------------------------------------------ Service.Run
\* App.StartBackup emits phase starting and calls Run: the entry guard,
\* under s.mu
RunEnter(c) ==
    /\ call[c].pc = "idle"
    /\ InstallSink("Run")
    /\ IF isRunning
       THEN /\ returned' = ReturnBusy(c, "Run")
            /\ call' = [call EXCEPT ![c] = DoneCall]
            /\ UNCHANGED <<isRunning, shouldStop>>
       ELSE /\ isRunning' = TRUE
            /\ shouldStop' = ClearedOnEntry
            /\ call' = [call EXCEPT ![c] =
                          [IdleCall EXCEPT !.op = "Run", !.pc = "preflight",
                                           !.phases = <<"starting">>,
                                           !.before = catalog]]
            /\ returned' = NoReturn
    /\ UNCHANGED <<now, config, catalog, server, recov, sessions>>

\* the checks before the scan, backupID, the temp directory
RunPreflight(c) ==
    /\ call[c].op = "Run" /\ call[c].pc = "preflight"
    /\ IF config.DeviceID = 0 \/ config.EncryptionKey = ""
       THEN /\ call' = [call EXCEPT ![c] = DoneCall]
            /\ returned' = Return(c, "error", call[c].log)
            /\ isRunning' = ClearedOnReturn
            /\ UNCHANGED now
       ELSE \E t \in ClockReadings, mkdirFails \in BOOLEAN :
            /\ now' = t
            /\ IF mkdirFails
               THEN /\ call' = [call EXCEPT ![c] = DoneCall]
                    /\ returned' = Return(c, "error", call[c].log)
                    /\ isRunning' = ClearedOnReturn
               ELSE /\ call' = [call EXCEPT ![c].backupID = FormatSessionID(t),
                                            ![c].work = WalkAll(config.BackupDirs),
                                            ![c].phases = Emit(@, "scanning"),
                                            ![c].pc = "scan"]
                    /\ returned' = NoReturn
                    /\ UNCHANGED isRunning
    /\ UNCHANGED <<config, catalog, shouldStop, server, recov, sessions, OnProgress>>

\* the change record the scanner makes of file p with content c
FileToBackup(p, c) ==
    [path |-> p, size |-> SizeOf(c), hashedName |-> HashPath(p),
     contentHash |-> HashFileContent(c)]

\* what the walk function decides for one file: TRUE when the file goes on
\* the list of files to back up.  readFails: HashFileContent cannot read the
\* file; queryFails: the catalog query of NeedsBackup returns an error
ScanEmits(cat, p, c, seen, readFails, queryFails) ==
    /\ c # NoFile                 \* a regular file of size > 0
    /\ Abs(p) \notin seen     \* seenPaths[absPath]
    /\ ~readFails
    /\ IF queryFails THEN TRUE    \* needsBackup = true: cannot determine
       ELSE NeedsBackup(cat, p, HashFileContent(c))

\* the walk function of scanDirectoryIncrementalWithProgress on one file;
\* data is what the file holds when the scanner comes to it
RunScanFile(c) ==
    /\ call[c].op = "Run" /\ call[c].pc = "scan"
    /\ call[c].work # <<>>
    /\ LET p == Head(call[c].work) IN
       \E data \in {NoFile} \cup Contents, readFails \in BOOLEAN, queryFails \in BOOLEAN :
          call' = [call EXCEPT
                     ![c].work = Tail(call[c].work),
                     ![c].seenPaths =
                         IF data # NoFile THEN @ \cup {Abs(p)} ELSE @,
                     ![c].filesToBackup =
                         IF ScanEmits(catalog, p, data, call[c].seenPaths,
                                      readFails, queryFails)
                         THEN Append(@, FileToBackup(p, data)) ELSE @,
                     \* history: the paths that are on the list because
                     \* the catalog query failed
                     ![c].lookupFailed =
                         IF /\ queryFails
                            /\ ScanEmits(catalog, p, data, call[c].seenPaths,
                                         readFails, TRUE)
                            /\ ~ScanEmits(catalog, p, data, call[c].seenPaths,
                                          readFails, FALSE)
                         THEN @ \cup {p} ELSE @,
                     \* history: the files read whose content is not that
                     \* of the latest version of their path
                     ![c].changed =
                         IF /\ data # NoFile /\ ~readFails
                            /\ Abs(p) \notin call[c].seenPaths
                            /\ \/ GetLatestVersion(catalog, p) = NoEntry
                               \/ GetLatestVersion(catalog, p).ContentHash
                                     # HashFileContent(data)
                         THEN @ \cup {p} ELSE @]
    /\ returned' = NoReturn
    /\ UNCHANGED <<now, config, catalog, isRunning, shouldStop, server,
                   recov, sessions, OnProgress>>

\* after the scan: nothing to do, or the first tar file and the timestamp.
\* Two readings of the clock that are a session apart are different instants.
RunScanDone(c) ==
    /\ call[c].op = "Run" /\ call[c].pc = "scan"
    /\ call[c].work = <<>>
    /\ IF call[c].filesToBackup = <<>>
       THEN /\ call' = [call EXCEPT ![c] = DoneCall]
            /\ returned' = Return(c, "ok", call[c].log)
            /\ isRunning' = ClearedOnReturn
            /\ UNCHANGED <<now, sessions>>
       ELSE \E createFails \in BOOLEAN :
              IF createFails
              THEN /\ call' = [call EXCEPT ![c] = DoneCall]
                   /\ returned' = ReturnWith(c, "error", call[c].log,
                                             Emit(call[c].phases, "encrypting"))
                   /\ isRunning' = ClearedOnReturn
                   /\ UNCHANGED <<now, sessions>>
              ELSE \E t \in ClockReadings :
                   /\ \A k \in 1..Len(sessions) : sessions[k].timestamp < t
                   /\ now' = t
                   /\ call' = [call EXCEPT ![c].tarPart = 1, ![c].tarSize = 0,
                                           ![c].tar = <<>>, ![c].timestamp = t,
                                           ![c].phases = Emit(@, "encrypting"),
                                           ![c].i = 1, ![c].pc = "pack"]
                   /\ sessions' = Append(sessions,
                                     [backupID |-> call[c].backupID, timestamp |-> t])
                   /\ returned' = NoReturn
                   /\ UNCHANGED isRunning
    /\ UNCHANGED <<config, OnProgress, catalog, shouldStop, server, recov>>


\* uploadTar: the server saves the file under {session_id}/{file name}
UploadTar(srv, sessionID, part, members) ==
    [srv EXCEPT !.shards =
        {x \in @ : ~(x.SessionID = sessionID /\ x.part = part)}
        \cup {[SessionID |-> sessionID, part |-> part, members |-> members]}]

\* uploadCatalog: the server saves catalogs/{session_id}.katalog.enc and adds
\* a record of it
UploadCatalog(srv, sessionID, sealed) ==
    [srv EXCEPT !.catalogs =
        Append([k \in 1..Len(@) |->
                   IF @[k].SessionID = sessionID
                   THEN [@[k] EXCEPT !.sealed = sealed] ELSE @[k]],
               [SessionID |-> sessionID, sealed |-> sealed])]

\* the rows of a catalog file the server holds, for who has the key
SnapshotRows(rec) == DecryptAndDecompress(rec.sealed)

\* the content that has hash h
ContentOf(h) == h[2]

\* a member of a tar file: its header and, when whole, all of its content
Member(name, data, whole) == [name |-> name, data |-> data, whole |-> whole]

\* where a turn of the loop can fail: nowhere; before the header is in the
\* tar (EncryptFile, os.Stat, WriteHeader); after it (os.Open, io.Copy)
PackFailures == {"none", "EncryptFile", "Open"}

\* a member named by the path of its file
OrigFileName(file) == file.path

\* encFileName: the hashed name of the file (the suffix .enc is left out)
EncFileName(file) == file.hashedName

\* a final tar that is uploaded whatever it holds
TarAlwaysUploaded(tarSize) == TRUE

\* if tarSize > 0: the final tar is uploaded
TarHasContent(tarSize) == tarSize > 0

\* a tar that is never found too big
TarNeverTooBig(tarSize) == FALSE

\* if tarSize > maxTarSize: the tar is closed and uploaded
TarTooBig(tarSize) == tarSize > maxTarSize

\* one turn of the loop over filesToBackup, up to the test of the tar size;
\* a file is not rewritten between the scan and the packing of one session:
\* EncryptFile reads what the scanner hashed, or fails.  A tar writer that
\* was left with a member short of its content fails every later
\* WriteHeader
RunPackFile(c) ==
    /\ call[c].op = "Run" /\ call[c].pc = "pack"
    /\ call[c].i <= Len(call[c].filesToBackup)
    /\ IF shouldStop
       THEN /\ call' = [call EXCEPT ![c] = DoneCall]
            /\ returned' = Return(c, "cancelled", call[c].log)
            /\ isRunning' = ClearedOnReturn
       ELSE /\ UNCHANGED isRunning
            /\ returned' = NoReturn
            /\ LET file == call[c].filesToBackup[call[c].i]
                   data == ContentOf(file.contentHash)
               IN \E failure \in PackFailures :
                    /\ call[c].tarBroken => failure = "EncryptFile"
                    /\ IF failure = "EncryptFile"
                       THEN \* continue: the file is skipped
                            call' = [call EXCEPT ![c].i = @ + 1,
                                                 ![c].phases = Emit(@, "encrypting")]
                       ELSE IF failure = "Open"
                       THEN \* continue, with the header written
                            call' = [call EXCEPT
                                ![c].tar = Append(@, Member(EncFileName(file), CompressAndEncrypt(data), FALSE)),
                                ![c].tarBroken = TRUE,
                                ![c].i = @ + 1,
                                ![c].phases = Emit(@, "encrypting")]
                       ELSE LET packedSize == EncryptFile(data)
                                entry == FileEntry(call[c].timestamp, file.path,
                                                   file.contentHash, file.size, packedSize)
                                size == call[c].tarSize + packedSize
                            IN call' = [call EXCEPT
                                ![c].tar = Append(@, Member(EncFileName(file), CompressAndEncrypt(data), TRUE)),
                                ![c].tarSize = size,
                                ![c].catalogEntries = Append(@, entry),
                                ![c].phases = Emit(@, "encrypting"),
                                ![c].i = IF TarTooBig(size) THEN @ ELSE @ + 1,
                                ![c].pc = IF TarTooBig(size) THEN "rollover" ELSE "pack"]
    /\ UNCHANGED <<now, config, catalog, shouldStop, server, recov, sessions, OnProgress>>

\* a rollover that writes the entries gathered so far to the catalog as
\* soon as their tar is uploaded
RunRolloverCommits(c) ==
    /\ call[c].op = "Run" /\ call[c].pc = "rollover"
    /\ \E uploadFails \in BOOLEAN, createFails \in BOOLEAN :
          IF uploadFails
          THEN /\ call' = [call EXCEPT ![c] = DoneCall]
               /\ returned' = ReturnWith(c, "error", call[c].log,
                                         Emit(call[c].phases, "uploading"))
               /\ isRunning' = ClearedOnReturn
               /\ UNCHANGED <<server, catalog>>
          ELSE /\ server' = UploadTar(server, call[c].backupID, call[c].tarPart,
                                      call[c].tar)
               /\ catalog' = AddEntries(catalog, call[c].catalogEntries, 0)
               /\ IF createFails
                  THEN /\ call' = [call EXCEPT ![c] = DoneCall]
                       /\ returned' = ReturnWith(c, "error", Append(call[c].log, "shard"),
                                                 Emit(call[c].phases, "uploading"))
                       /\ isRunning' = ClearedOnReturn
                  ELSE /\ call' = [call EXCEPT ![c].tarPart = @ + 1,
                                               ![c].tarSize = 0,
                                               ![c].tar = <<>>,
                                               ![c].tarBroken = FALSE,
                                               ![c].uploaded = Append(@, call[c].tar),
                                               ![c].i = @ + 1,
                                               ![c].log = Append(@, "shard"),
                                               ![c].phases = Emit(@, "uploading"),
                                               ![c].pc = "pack"]
                       /\ returned' = NoReturn
                       /\ UNCHANGED isRunning
    /\ UNCHANGED <<now, config, shouldStop, recov, sessions, OnProgress>>

\* the tar is too big: upload it and start a new one
RunRollover(c) ==
    /\ call[c].op = "Run" /\ call[c].pc = "rollover"
    /\ \E uploadFails \in BOOLEAN, createFails \in BOOLEAN :
          IF uploadFails
          THEN /\ call' = [call EXCEPT ![c] = DoneCall]
               /\ returned' = ReturnWith(c, "error", call[c].log,
                                         Emit(call[c].phases, "uploading"))
               /\ isRunning' = ClearedOnReturn
               /\ UNCHANGED server
          ELSE /\ server' = UploadTar(server, call[c].backupID, call[c].tarPart,
                                      call[c].tar)
               /\ IF createFails
                  THEN /\ call' = [call EXCEPT ![c] = DoneCall]
                       /\ returned' = ReturnWith(c, "error", Append(call[c].log, "shard"),
                                                 Emit(call[c].phases, "uploading"))
                       /\ isRunning' = ClearedOnReturn
                  ELSE /\ call' = [call EXCEPT ![c].tarPart = @ + 1,
                                               ![c].tarSize = 0,
                                               ![c].tar = <<>>,
                                               ![c].tarBroken = FALSE,
                                               ![c].uploaded = Append(@, call[c].tar),
                                               ![c].i = @ + 1,
                                               ![c].log = Append(@, "shard"),
                                               ![c].phases = Emit(@, "uploading"),
                                               ![c].pc = "pack"]
                       /\ returned' = NoReturn
                       /\ UNCHANGED isRunning
    /\ UNCHANGED <<now, config, catalog, shouldStop, recov, sessions, OnProgress>>

\* the end of the loop without the upload of the final tar
RunFinalTarNoUpload(c) ==
    /\ call[c].op = "Run" /\ call[c].pc = "pack"
    /\ call[c].i > Len(call[c].filesToBackup)
    /\ call' = [call EXCEPT ![c].pc = "commit"]
    /\ returned' = NoReturn
    /\ UNCHANGED <<now, config, catalog, isRunning, shouldStop, server,
                   recov, sessions, OnProgress>>

\* the final tar with the entries written to the catalog before the upload
RunFinalTarCommitsFirst(c) ==
    /\ call[c].op = "Run" /\ call[c].pc = "pack"
    /\ call[c].i > Len(call[c].filesToBackup)
    /\ catalog' = AddEntries(catalog, call[c].catalogEntries, 0)
    /\ IF call[c].tarSize > 0
       THEN \E uploadFails \in BOOLEAN :
              IF uploadFails
              THEN /\ call' = [call EXCEPT ![c] = DoneCall]
                   /\ returned' = Return(c, "error", call[c].log)
                   /\ isRunning' = ClearedOnReturn
                   /\ UNCHANGED server
              ELSE /\ server' = UploadTar(server, call[c].backupID, call[c].tarPart,
                                          call[c].tar)
                   /\ call' = [call EXCEPT ![c].log = Append(@, "shard"),
                                           ![c].catalogEntries = <<>>,
                                           ![c].pc = "commit"]
                   /\ returned' = NoReturn
                   /\ UNCHANGED isRunning
       ELSE /\ call' = [call EXCEPT ![c].pc = "commit"]
            /\ returned' = NoReturn
            /\ UNCHANGED <<isRunning, server>>
    /\ UNCHANGED <<now, config, shouldStop, recov, sessions, OnProgress>>

\* after the loop: the final tar, when it has content
RunFinalTar(c) ==
    /\ call[c].op = "Run" /\ call[c].pc = "pack"
    /\ call[c].i > Len(call[c].filesToBackup)
    /\ IF TarHasContent(call[c].tarSize)
       THEN \E uploadFails \in BOOLEAN :
              IF uploadFails
              THEN /\ call' = [call EXCEPT ![c] = DoneCall]
                   /\ returned' = ReturnWith(c, "error", call[c].log,
                                             Emit(call[c].phases, "uploading"))
                   /\ isRunning' = ClearedOnReturn
                   /\ UNCHANGED server
              ELSE /\ server' = UploadTar(server, call[c].backupID, call[c].tarPart,
                                          call[c].tar)
                   /\ call' = [call EXCEPT ![c].log = Append(@, "shard"),
                                           ![c].uploaded = Append(@, call[c].tar),
                                           ![c].phases = Emit(@, "uploading"),
                                           ![c].pc = "commit"]
                   /\ returned' = NoReturn
                   /\ UNCHANGED isRunning
       ELSE /\ call' = [call EXCEPT ![c].pc = "commit"]
            /\ returned' = NoReturn
            /\ UNCHANGED <<isRunning, server>>
    /\ UNCHANGED <<now, config, catalog, shouldStop, recov, sessions, OnProgress>>

\* catalog.AddEntries of the session's entries
RunAddEntries(c) ==
    /\ call[c].op = "Run" /\ call[c].pc = "commit"
    /\ LET entries == call[c].catalogEntries IN
       IF Len(entries) > 0
       THEN \E failAt \in 0..(Len(entries) + 1) :
              /\ catalog' = AddEntries(catalog, entries, failAt)
              /\ IF failAt # 0
                 THEN /\ call' = [call EXCEPT ![c] = DoneCall]
                      /\ returned' = ReturnWith(c, "error",
                                         Append(call[c].log, "rollback"),
                                         Emit(call[c].phases, "updating_catalog"))
                      /\ isRunning' = ClearedOnReturn
                 ELSE /\ call' = [call EXCEPT ![c].log = Append(@, "commit"),
                                              ![c].phases = Emit(@, "updating_catalog"),
                                              ![c].pc = "snapshot"]
                      /\ returned' = NoReturn
                      /\ UNCHANGED isRunning
       ELSE /\ call' = [call EXCEPT ![c].pc = "snapshot"]
            /\ returned' = NoReturn
            /\ UNCHANGED <<catalog, isRunning>>
    /\ UNCHANGED <<now, config, shouldStop, server, recov, sessions, OnProgress>>

\* export, seal and upload the catalog; the session is complete
RunCatalogDump(c) ==
    /\ call[c].op = "Run" /\ call[c].pc = "snapshot"
    /\ \E fails \in BOOLEAN :
          IF fails
          THEN /\ returned' = ReturnWith(c, "error", call[c].log,
                                         Emit(call[c].phases, "uploading_catalog"))
               /\ UNCHANGED server
          ELSE /\ server' = UploadCatalog(server, call[c].backupID,
                                   CompressAndEncrypt(ExportToFile(catalog)))
               /\ returned' = ReturnWith(c, "ok", Append(call[c].log, "snapshot"),
                                   Emit(Emit(call[c].phases, "uploading_catalog"),
                                        "complete"))
    /\ call' = [call EXCEPT ![c] = DoneCall]
    /\ isRunning' = ClearedOnReturn
    /\ UNCHANGED <<now, config, catalog, shouldStop, recov, sessions, OnProgress>>

\* Service.Stop
Stop ==
    /\ shouldStop' = TRUE
    /\ returned' = NoReturn
    /\ UNCHANGED <<now, config, catalog, isRunning, call, server, recov, sessions, OnProgress>>


\* --------------------------------------------------- the restore operations
DirPrefixes == {RootD}

RestoreOps == {"RestoreFile", "RestoreDirectory", "RestoreToTime", "Restore"}

RestoreTargets ==
    [op : {"RestoreFile"}, path : Paths, time : WholeSeconds]
    \cup [op : {"RestoreDirectory"}, path : DirPrefixes, time : WholeSeconds]
    \cup [op : {"RestoreToTime"}, time : WholeSeconds]
    \cup [op : {"Restore"}]

\* the entry guard of RestoreFile, RestoreDirectory, RestoreToTime, Restore
RestoreEnter(c) ==
    /\ call[c].pc = "idle"
    /\ \E tg \in RestoreTargets :
         /\ InstallSink(tg.op)
         /\ IF isRunning
            THEN /\ returned' = ReturnBusy(c, tg.op)
                 /\ call' = [call EXCEPT ![c] = DoneCall]
                 /\ UNCHANGED <<isRunning, shouldStop>>
            ELSE /\ isRunning' = TRUE
                 /\ shouldStop' = ClearedOnEntry
                 /\ call' = [call EXCEPT ![c] =
                               [IdleCall EXCEPT !.op = tg.op, !.pc = "resolve",
                                                !.target = tg,
                                                !.before = catalog]]
                 /\ returned' = NoReturn
    /\ UNCHANGED <<now, config, catalog, server, recov, sessions>>

\* the catalog query that resolves the request into file versions
Resolve(cat, tg) ==
    CASE tg.op = "RestoreFile" ->
            LET file == GetFileAtTime(cat, tg.path, tg.time)
            IN IF file = NoEntry THEN <<>> ELSE <<file>>
      [] tg.op = "RestoreDirectory" -> GetFilesInDirAtTime(cat, tg.path, tg.time)
      [] tg.op = "RestoreToTime" -> GetFilesAtTime(cat, tg.time)

\* the same step with the test for an empty result left out
RestoreResolveNoCheck(c) ==
    /\ call[c].op \in RestoreOps \ {"Restore"} /\ call[c].pc = "resolve"
    /\ LET files == Resolve(catalog, call[c].target) IN
       call' = [call EXCEPT ![c].files = files,
                            ![c].i = 1,
                            ![c].pc = IF call[c].op = "RestoreToTime"
                                      THEN "restoring" ELSE "request"]
    /\ returned' = NoReturn
    /\ UNCHANGED <<now, config, catalog, isRunning, shouldStop, server,
                   recov, sessions, OnProgress>>

\* the query and the test of its result; Restore (a whole backup by its
\* id) asks the catalog nothing before the download
RestoreResolve(c) ==
    /\ call[c].op \in RestoreOps /\ call[c].pc = "resolve"
    /\ IF call[c].op = "Restore"
       THEN /\ call' = [call EXCEPT ![c].pc = "transfer",
                                    ![c].phases = Emit(@, "downloading")]
            /\ returned' = NoReturn
            /\ UNCHANGED isRunning
       ELSE \E queryFails \in BOOLEAN :
              LET files == Resolve(catalog, call[c].target) IN
              IF queryFails
              THEN /\ call' = [call EXCEPT ![c] = DoneCall]
                   /\ returned' = Return(c, "error", call[c].log)
                   /\ isRunning' = ClearedOnReturn
              ELSE IF Len(files) = 0
              THEN /\ call' = [call EXCEPT ![c] = DoneCall]
                   /\ returned' = Return(c, "notfound", call[c].log)
                   /\ isRunning' = ClearedOnReturn
              ELSE /\ call' = [call EXCEPT
                          ![c].files = files,
                          ![c].i = 1,
                          ![c].phases = Emit(@, IF call[c].op = "RestoreToTime"
                                                THEN "preparing" ELSE "downloading"),
                          ![c].pc = IF call[c].op = "RestoreToTime"
                                    THEN "restoring" ELSE "request"]
                   /\ returned' = NoReturn
                   /\ UNCHANGED isRunning
    /\ UNCHANGED <<now, config, catalog, shouldStop, server, recov, sessions, OnProgress>>

\* Timestamp.Format("2006-01-02T15:04:05"): the instant cut to its second
FormatTargetDate(t) == t \div TicksPerSec

\* no date goes with the name
NoDate == -1

\* the body of POST restore-files: a name and a date for each file
RestoreFilesRequest(files) ==
    [k \in 1..Len(files) |->
        [HashedName |-> files[k].HashedName,
         TargetDate |-> FormatTargetDate(files[k].Timestamp)]]

\* findBestFileVersion: of the tars whose directory is not after targetTime
\* and that hold a header of the name, one of the nearest to targetTime
FindBestFileVersion(srv, hashedName, targetTime) ==
    LET holds == {x \in srv.shards :
                    /\ x.SessionID <= targetTime
                    /\ \E k \in 1..Len(x.members) : x.members[k].name = hashedName}
    IN {x \in holds : \A y \in holds : y.SessionID <= x.SessionID}

\* the members the handler RestoreFiles can put into its answer: for each
\* requested name the member of a best tar
RestoreFilesFound(srv, req) ==
    {m \in UNION {Range(x.members) : x \in srv.shards} :
        \E k \in 1..Len(req) :
           /\ m.name = req[k].HashedName
           /\ \E x \in FindBestFileVersion(srv, m.name, req[k].TargetDate) :
                 m \in Range(x.members)}

\* the orders a Go map of the members can be ranged over
Orders(S) ==
    {q \in UNION {[1..n -> S] : n \in {Cardinality(S)}} :
        \A j, k \in 1..Cardinality(S) : j # k => q[j] # q[k]}

\* the request of RestoreFile and RestoreDirectory and the server's answer
RestoreRequest(c) ==
    /\ call[c].op \in {"RestoreFile", "RestoreDirectory"} /\ call[c].pc = "request"
    /\ LET req == RestoreFilesRequest(call[c].files)
           found == RestoreFilesFound(server, req)
       IN \E connects \in BOOLEAN :
            IF ~connects \/ found = {}
            THEN \* no connection, or a status other than 200
                 /\ call' = [call EXCEPT ![c] = DoneCall]
                 /\ returned' = [Return(c, "error", call[c].log)
                                   EXCEPT !.request = IF connects THEN req ELSE <<>>]
                 /\ isRunning' = ClearedOnReturn
            ELSE \E members \in Orders({m.name : m \in found}) :
                 /\ call' = [call EXCEPT
                       ![c].request = req,
                       ![c].members = [k \in 1..Len(members) |->
                           CHOOSE m \in found : m.name = members[k]],
                       ![c].i = 1,
                       ![c].phases = Emit(@, "extracting"),
                       ![c].pc = "extract"]
                 /\ returned' = NoReturn
                 /\ UNCHANGED isRunning
    /\ UNCHANGED <<now, config, catalog, shouldStop, server, recov, sessions, OnProgress>>

\* what can happen to one member of the answer
MemberOutcomes == {"ok", "tarError", "createFails", "decryptFails"}

\* where the member named name is written: RestoreFile writes every member
\* to the path it was asked for, RestoreDirectory looks the name up
DestPath(c, name) ==
    IF call[c].op = "RestoreFile" THEN {call[c].target.path}
    ELSE {f.OrigPath : f \in {g \in Range(call[c].files) : g.HashedName = name}}

\* one turn of the loop over the members of the answer.  A member the
\* server could not copy whole ends the tar stream: the next read fails
RestoreMember(c) ==
    /\ call[c].op \in {"RestoreFile", "RestoreDirectory"} /\ call[c].pc = "extract"
    /\ call[c].i <= Len(call[c].members)
    /\ LET m == call[c].members[call[c].i] IN
       \E outcome \in MemberOutcomes :
         /\ ~m.whole => outcome = "tarError"
         /\ IF \/ outcome = "tarError"
               \/ outcome = "decryptFails" /\ call[c].op = "RestoreFile"
            THEN /\ call' = [call EXCEPT ![c] = DoneCall]
                 /\ returned' = Return(c, "error", Append(call[c].log, outcome))
                 /\ isRunning' = ClearedOnReturn
            ELSE /\ call' = [call EXCEPT
                       ![c].i = @ + 1,
                       ![c].log = IF outcome = "ok" THEN @ ELSE Append(@, outcome),
                       ![c].written = IF outcome = "ok"
                                      THEN @ \cup DestPath(c, m.name) ELSE @]
                 /\ returned' = NoReturn
                 /\ UNCHANGED isRunning
    /\ UNCHANGED <<now, config, catalog, shouldStop, server, recov, sessions, OnProgress>>

\* the end of the tar stream
RestoreExtractDone(c) ==
    /\ call[c].op \in {"RestoreFile", "RestoreDirectory"} /\ call[c].pc = "extract"
    /\ call[c].i > Len(call[c].members)
    /\ call' = [call EXCEPT ![c] = DoneCall]
    /\ returned' = Return(c, "ok", call[c].log)
    /\ isRunning' = ClearedOnReturn
    /\ UNCHANGED <<now, config, catalog, shouldStop, server, recov, sessions, OnProgress>>

\* one turn of the loop of RestoreToTime: GET files/{name}.enc, a path the
\* server has no route for, so what is saved is never a sealed file and
\* DecryptFile fails; the file is skipped
RestoreToTimeFile(c) ==
    /\ call[c].op = "RestoreToTime" /\ call[c].pc = "restoring"
    /\ call[c].i <= Len(call[c].files)
    /\ IF shouldStop
       THEN /\ call' = [call EXCEPT ![c] = DoneCall]
            /\ returned' = Return(c, "cancelled", call[c].log)
            /\ isRunning' = ClearedOnReturn
       ELSE /\ \E connects \in BOOLEAN :
                 call' = [call EXCEPT
                    ![c].i = @ + 1,
                    ![c].phases = Emit(@, "restoring"),
                    ![c].request = IF connects
                                   THEN Append(@, [HashedName |-> call[c].files[call[c].i].HashedName,
                                                   TargetDate |-> NoDate])
                                   ELSE @,
                    ![c].log = Append(@, IF connects THEN "decryptFails"
                                         ELSE "downloadFails")]
            /\ returned' = NoReturn
            /\ UNCHANGED isRunning
    /\ UNCHANGED <<now, config, catalog, shouldStop, server, recov, sessions, OnProgress>>

RestoreToTimeDone(c) ==
    /\ call[c].op = "RestoreToTime" /\ call[c].pc = "restoring"
    /\ call[c].i > Len(call[c].files)
    /\ call' = [call EXCEPT ![c] = DoneCall]
    /\ returned' = Return(c, "ok", call[c].log)
    /\ isRunning' = ClearedOnReturn
    /\ UNCHANGED <<now, config, catalog, shouldStop, server, recov, sessions, OnProgress>>

\* Restore: the download of a backup and the extraction of its members, to
\* the return of the operation; it never reads shouldStop
RestoreTransfer(c) ==
    /\ call[c].op = "Restore" /\ call[c].pc = "transfer"
    /\ \E result \in {"ok", "error"} :
          returned' = ReturnWith(c, result, call[c].log,
                         IF result = "ok"
                         THEN Emit(Emit(call[c].phases, "extracting"), "complete")
                         ELSE call[c].phases)
    /\ call' = [call EXCEPT ![c] = DoneCall]
    /\ isRunning' = ClearedOnReturn
    /\ UNCHANGED <<now, config, catalog, shouldStop, server, recov, sessions, OnProgress>>

\* ------------------------------------------------- Service.RecoverCatalog
\* the handler ListCatalogs: a download URL for each catalog record, newest
\* first; the URL is a path (/api/v1/devices/{id}/catalogs/{id}/download)
\* with no scheme and no host
ListCatalogs(srv) ==
    [k \in 1..Len(srv.catalogs) |->
        [host |-> "", catalog |-> Len(srv.catalogs) + 1 - k]]

\* downloadFile requests the URL as it is given: a URL without a host
\* cannot be requested
CanRequest(url) == url.host # ""

\* App.RecoverCatalog checks the key and the device, then the goroutine asks
\* the server for the list of catalogs (newest first)
RecoverStart ==
    /\ recov.pc = "idle"
    /\ config.EncryptionKey # "" /\ config.DeviceID # 0
    /\ \E listFails \in BOOLEAN :
          recov' = IF listFails
                   THEN [recov EXCEPT !.pc = "done"]
                   ELSE [recov EXCEPT
                            !.pc = "loop",
                            !.urls = ListCatalogs(server),
                            \* history: the recovery starts on an empty
                            \* catalog with no operation under way
                            !.intoEmpty = /\ catalog = <<>>
                                          /\ \A c \in Callers :
                                                call[c].pc \in {"idle", "done"}]
    /\ returned' = NoReturn
    /\ UNCHANGED <<now, config, catalog, isRunning, shouldStop, call,
                   server, sessions, OnProgress>>

\* one catalog of the list: download, decrypt, import
RecoverOne ==
    /\ recov.pc = "loop"
    /\ recov.urls # <<>>
    /\ recov' = [recov EXCEPT !.urls = Tail(@)]
    /\ \E skipped \in BOOLEAN :
          /\ ~CanRequest(Head(recov.urls)) => skipped
          /\ IF skipped   \* the download or the decryption failed: continue
             THEN UNCHANGED catalog
             ELSE LET src == SnapshotRows(server.catalogs[Head(recov.urls).catalog]) IN
                  \E failAt \in (0 - Len(src))..(Len(src) + 1) :
                     catalog' = ImportFromFile(catalog, src, failAt)
    /\ returned' = NoReturn
    /\ UNCHANGED <<now, config, isRunning, shouldStop, call, server, sessions, OnProgress>>

RecoverDone ==
    /\ recov.pc = "loop"
    /\ recov.urls = <<>>
    /\ recov' = [recov EXCEPT !.pc = "done", !.intoEmpty = FALSE]
    /\ returned' = NoReturn
    /\ UNCHANGED <<now, config, catalog, isRunning, shouldStop, call,
                   server, sessions, OnProgress>>

\* App.ClearLocalCatalog
ClearLocalCatalog ==
    /\ catalog # <<>>
    /\ catalog' = ClearAll(catalog)
    /\ recov' = [recov EXCEPT !.intoEmpty = FALSE]
    /\ returned' = NoReturn
    /\ UNCHANGED <<now, config, isRunning, shouldStop, call, server, sessions, OnProgress>>

\* ------------------------------------------------------------------ system
RunStep(c) ==
    \/ RunEnter(c)
    \/ RunPreflight(c)
    \/ RunScanFile(c)
    \/ RunScanDone(c)
    \/ RunPackFile(c)
    \/ RunRollover(c)
    \/ RunFinalTar(c)
    \/ RunAddEntries(c)
    \/ RunCatalogDump(c)

RestoreStep(c) ==
    \/ RestoreEnter(c)
    \/ RestoreResolve(c)
    \/ RestoreRequest(c)
    \/ RestoreMember(c)
    \/ RestoreExtractDone(c)
    \/ RestoreToTimeFile(c)
    \/ RestoreToTimeDone(c)
    \/ RestoreTransfer(c)

Next ==
    \/ Stop
    \/ \E c \in Callers : RunStep(c)
    \/ \E c \in Callers : RestoreStep(c)

Spec == Init /\ [][Next]_vars

\* backup sessions over roots that overlap: the same root twice, a root
\* given in absolute and in relative form, a root inside another
RelD == <<"d">>
OverlapConfigs ==
    { [DeviceID |-> 1, EncryptionKey |-> "pw", BackupDirs |-> <<RootD, RootD>>],
      [DeviceID |-> 1, EncryptionKey |-> "pw", BackupDirs |-> <<RootD, RelD>>],
      [DeviceID |-> 1, EncryptionKey |-> "pw", BackupDirs |-> <<<<"/">>, RootD>>] }

InitOverlap ==
    /\ now = 0
    /\ config \in OverlapConfigs
    /\ catalog = <<>>
    /\ isRunning = FALSE
    /\ shouldStop = FALSE
    /\ call = [c \in Callers |-> IdleCall]
    /\ server = [shards |-> {}, catalogs |-> <<>>]
    /\ recov = [pc |-> "idle", urls |-> <<>>, intoEmpty |-> FALSE]
    /\ sessions = <<>>
    /\ OnProgress = NoSink
    /\ returned = NoReturn

\* one session is enough to come to a file twice
NextOverlap == RunStep("c1")

SpecOverlap == InitOverlap /\ [][NextOverlap]_vars

\* the same with catalog recovery and the clearing of the local catalog
NextRecovery ==
    \/ \E c \in Callers : RunStep(c)
    \/ RecoverStart
    \/ RecoverOne
    \/ RecoverDone
    \/ ClearLocalCatalog

SpecRecovery == Init /\ [][NextRecovery]_vars


\* ------------------------------------------- the catalog as a package
\* The operations the catalog exposes, called one after another by any
\* client of the package; returned tells which operation acted last and
\* holds the rows it found.
CatalogCall(op) ==
    [op |-> op, caller |-> "client", result |-> "ok", log |-> <<>>,
     before |-> catalog, lookupFailed |-> {}, timestamp |-> -1,
     catalogEntries |-> <<>>, uploaded |-> <<>>, phases |-> <<>>,
     target |-> <<>>, files |-> <<>>, request |-> <<>>, written |-> {}]

Entries ==
    {FileEntry(ts, p, HashFileContent(c), SizeOf(c), EncryptFile(c)) :
        ts \in Times, p \in Paths, c \in Contents}

\* a batch as a session builds it: one timestamp, each path once
Batches ==
    {<<e>> : e \in Entries} \cup
    {b \in Entries \X Entries : /\ b[1].Timestamp = b[2].Timestamp
                                /\ b[1].OrigPath # b[2].OrigPath}

CatalogUnchanged ==
    UNCHANGED <<now, config, isRunning, shouldStop, call, server, recov, sessions, OnProgress>>

CatAddEntry ==
    /\ Len(catalog) < MaxRows
    /\ \E e \in Entries : catalog' = AddEntry(catalog, e)
    /\ returned' = CatalogCall("AddEntry")
    /\ CatalogUnchanged

CatAddEntries ==
    /\ \E b \in Batches, failAt \in 0..3 :
          /\ failAt <= Len(b) + 1
          /\ Len(catalog) + Len(b) <= MaxRows
          /\ catalog' = AddEntries(catalog, b, failAt)
    /\ returned' = CatalogCall("AddEntries")
    /\ CatalogUnchanged

PackedSizes == {EncryptFile(c) : c \in Contents}

CatUpdatePackedSize ==
    /\ \E p \in Paths, size \in PackedSizes :
          catalog' = UpdatePackedSize(catalog, p, size)
    /\ returned' = CatalogCall("UpdatePackedSize")
    /\ CatalogUnchanged

CatClearAll ==
    /\ catalog' = ClearAll(catalog)
    /\ returned' = CatalogCall("ClearAll")
    /\ CatalogUnchanged

\* the import of a snapshot that ExportToFile made of this catalog
CatImportFromFile ==
    /\ 2 * Len(catalog) <= MaxRows
    /\ \E failAt \in (0 - Len(catalog))..(Len(catalog) + 1) :
          catalog' = ImportFromFile(catalog, ExportToFile(catalog), failAt)
    /\ returned' = CatalogCall("ImportFromFile")
    /\ CatalogUnchanged

NextCatalog ==
    \/ CatAddEntry
    \/ CatAddEntries
    \/ CatUpdatePackedSize
    \/ CatClearAll
    \/ CatImportFromFile

InitCatalog == Init /\ config.DeviceID # 0 /\ config.EncryptionKey # ""

SpecCatalog == InitCatalog /\ [][NextCatalog]_vars


\* ================================================================ claims
Active == {c \in Callers : call[c].pc \notin {"idle", "done"}}

Last(q) == q[Len(q)]

\* C1: at most one of Run, RestoreFile, RestoreDirectory, RestoreToTime and
\* Restore is active at any time; a call made while another is active
\* returns the busy error at once: it has scanned, uploaded and logged
\* nothing, the catalog is as it found it, and the active operation goes on.
C1_SingletonGuard ==
    /\ Cardinality(Active) <= 1
    /\ Active # {} => isRunning
    /\ (returned.op # "none" /\ returned.result = "busy") =>
          /\ call[returned.caller] = DoneCall
          /\ returned.log = <<>>
          /\ returned.before = catalog
          /\ isRunning
          /\ \E d \in Callers \ {returned.caller} : d \in Active

\* a Run is told it is busy while another Run is packing
C1_Witness ==
    /\ returned.op = "Run" /\ returned.result = "busy"
    /\ \E d \in Callers : call[d].op = "Run" /\ call[d].pc = "pack"

\* the member of every entry of the batch is in a shard the server holds
ShardsHold(sessionID, entries) ==
    \A k \in 1..Len(entries) :
        \E sh \in server.shards :
            /\ sh.SessionID = sessionID
            /\ \E m \in 1..Len(sh.members) : sh.members[m].name = entries[k].HashedName

LogOrdered(log) ==
    \A x, y \in 1..Len(log) :
        x < y => /\ ~(log[x] \in {"commit", "rollback"} /\ log[y] = "shard")
                 /\ log[x] # "snapshot"

\* C2: in a session, every shard that carries a member of the batch is
\* uploaded before AddEntries is called with the batch, and AddEntries has
\* committed the batch before the catalog snapshot is uploaded.
C2_UploadCommitSnapshot ==
    /\ \A c \in Callers :
          /\ LogOrdered(call[c].log)
          /\ (call[c].op = "Run" /\ call[c].pc \in {"commit", "snapshot"}) =>
                ShardsHold(call[c].backupID, call[c].catalogEntries)
    /\ (returned.op = "Run" /\ returned.result # "busy") =>
          /\ LogOrdered(returned.log)
          /\ (Len(returned.log) > 0 /\ Last(returned.log) = "snapshot") =>
                /\ server.catalogs # <<>>
                /\ SnapshotRows(Last(server.catalogs)) = catalog
                /\ \A k \in 1..Len(returned.catalogEntries) :
                      returned.catalogEntries[k] \in Range(SnapshotRows(Last(server.catalogs)))

\* a session of two shards, a commit and a snapshot has returned
C2_Witness ==
    /\ returned.op = "Run" /\ returned.result = "ok"
    /\ returned.log = <<"shard", "shard", "commit", "snapshot">>

\* C3: a session that ends with an error, or is cancelled, before
\* AddEntries is reached leaves the latest version of every path as it was
\* before the session.
C3_FailedSessionKeepsLatest ==
    (/\ returned.op = "Run"
     /\ returned.result \in {"error", "cancelled"}
     /\ \A k \in 1..Len(returned.log) : returned.log[k] \notin {"commit", "rollback"})
    => \A p \in Paths :
          GetLatestVersion(catalog, p) = GetLatestVersion(returned.before, p)

\* a session that had entries ready fails over a catalog that has rows
C3_Witness ==
    /\ returned.op = "Run" /\ returned.result = "error"
    /\ \A k \in 1..Len(returned.log) : returned.log[k] \notin {"commit", "rollback"}
    /\ returned.catalogEntries # <<>>
    /\ returned.before # <<>>

\* C4: AddEntries adds every entry of the batch or none: after a failed call
\* the catalog is as before the call, after a successful one it is the
\* catalog before the call followed by the whole batch.
C4_AddEntriesAllOrNone ==
    /\ (returned.op = "Run" /\ Len(returned.log) > 0
        /\ Last(returned.log) = "rollback") => catalog = returned.before
    /\ \A c \in Callers :
          (call[c].op = "Run" /\ call[c].pc = "snapshot"
           /\ call[c].catalogEntries # <<>>) =>
              catalog = call[c].before \o call[c].catalogEntries

\* AddEntries has failed on a batch of two entries
C4_Witness ==
    /\ returned.op = "Run" /\ Len(returned.log) > 0
    /\ Last(returned.log) = "rollback"
    /\ Len(returned.catalogEntries) = 2


\* C5: every operation of the catalog other than ClearAll, a backup session
\* included, leaves every row that was in the catalog before it in the
\* catalog, with every field unchanged.
C5_AppendOnly ==
    returned.op \in {"AddEntry", "AddEntries", "UpdatePackedSize",
                     "ImportFromFile", "Run"}
    => SubBag(returned.before, catalog)

\* the latest version of p is absent, or its hash is not h
LatestAbsentOrDiffers(cat, p, h) ==
    \/ \A k \in 1..Len(cat) : cat[k].OrigPath # p
    \/ \E k \in 1..Len(cat) :
          /\ cat[k].OrigPath = p
          /\ \A j \in 1..Len(cat) :
                cat[j].OrigPath = p => cat[j].Timestamp <= cat[k].Timestamp
          /\ cat[k].ContentHash # h

\* the calls that have scanned and not yet written to the catalog
Scanned == {c \in Callers : call[c].op = "Run" /\
                            call[c].pc \in {"scan", "pack", "rollover", "commit"}}

C7_AdjacentVersionsDiffer ==
    \A x, y \in 1..Len(catalog) :
       (/\ x < y
        /\ catalog[x].OrigPath = catalog[y].OrigPath
        /\ catalog[x].ContentHash = catalog[y].ContentHash)
       => \E k \in 1..Len(catalog) :
             /\ catalog[k].OrigPath = catalog[x].OrigPath
             /\ catalog[k].ContentHash # catalog[x].ContentHash
             /\ \/ catalog[x].Timestamp < catalog[k].Timestamp
                   /\ catalog[k].Timestamp < catalog[y].Timestamp
                \/ catalog[y].Timestamp < catalog[k].Timestamp
                   /\ catalog[k].Timestamp < catalog[x].Timestamp

\* C8: the timestamps of any two sessions are at least one second apart,
\* and no two sessions have the same session id.
C8_SessionsASecondApart ==
    \A x, y \in 1..Len(sessions) :
       x < y => /\ sessions[y].timestamp - sessions[x].timestamp >= TicksPerSec
                /\ sessions[y].backupID # sessions[x].backupID

\* C9: GetFileAtTime(p, t) is absent exactly when p has no version with
\* timestamp <= t + 1s; otherwise it is a version of p with timestamp
\* <= t + 1s and no version of p has a timestamp after it and <= t + 1s.
\* RestoreFile restores what GetFileAtTime returns.
C9_FileAtTime ==
    /\ \A p \in Paths, t \in Times :
          LET v == GetFileAtTime(catalog, p, t)
              upTo == {k \in 1..Len(catalog) :
                          /\ catalog[k].OrigPath = p
                          /\ catalog[k].Timestamp <= t + TicksPerSec}
          IN /\ v = NoEntry <=> upTo = {}
             /\ v # NoEntry =>
                   /\ \E k \in upTo : catalog[k] = v
                   /\ \A k \in upTo : catalog[k].Timestamp <= v.Timestamp
    /\ \A c \in Callers :
          (call[c].op = "RestoreFile" /\ call[c].pc \in {"request", "extract"}) =>
             call[c].files =
                <<GetFileAtTime(catalog, call[c].target.path, call[c].target.time)>>
    /\ (returned.op = "RestoreFile" /\ returned.result = "notfound") =>
          \A k \in 1..Len(catalog) :
             catalog[k].OrigPath = returned.target.path =>
                catalog[k].Timestamp > returned.target.time + TicksPerSec

\* RestoreFile has resolved a request for second t to a version stamped
\* after t, within the second that the query adds
C9_Witness ==
    \E c \in Callers :
       /\ call[c].op = "RestoreFile" /\ call[c].pc = "request"
       /\ \E f \in Range(call[c].files) :
             /\ f.Timestamp > call[c].target.time
             /\ f.Timestamp <= call[c].target.time + TicksPerSec

DistinctSeconds ==
    \A x, y \in 1..Len(sessions) :
       x # y => FormatSessionID(sessions[x].timestamp)
                   # FormatSessionID(sessions[y].timestamp)

\* C10: when the sessions have distinct whole-second timestamps, no query
\* for a whole second t (GetFileAtTime, GetFilesInDirAtTime, GetFilesAtTime)
\* returns a version whose timestamp, cut to the second, is after t.
C10_NoVersionOfLaterSecond ==
    DistinctSeconds =>
       \A t \in WholeSeconds :
          /\ \A p \in Paths :
                LET v == GetFileAtTime(catalog, p, t)
                IN v # NoEntry =>
                      FormatSessionID(v.Timestamp) <= FormatSessionID(t)
          /\ \A v \in Range(GetFilesInDirAtTime(catalog, RootD, t)) :
                FormatSessionID(v.Timestamp) <= FormatSessionID(t)
          /\ \A v \in Range(GetFilesAtTime(catalog, t)) :
                FormatSessionID(v.Timestamp) <= FormatSessionID(t)

\* the number of rows of path p in a sequence of versions
RowsFor(res, p) == Cardinality({k \in 1..Len(res) : res[k].OrigPath = p})

\* C11: for every catalog and instant t, GetFilesAtTime(t) and
\* GetFilesAtTimestamp(t) hold exactly one version of each path that has a
\* version with timestamp <= t + 1s, the one GetFileAtTime(path, t) returns,
\* and nothing of any other path.
C11_FilesAtTimeIsFileAtTime ==
    \A t \in WholeSeconds, p \in Paths :
       LET v == GetFileAtTime(catalog, p, t)
           files == GetFilesAtTime(catalog, t)
           infos == {f \in GetFilesAtTimestamp(catalog, t) : f.OrigPath = p}
       IN IF v = NoEntry
          THEN RowsFor(files, p) = 0 /\ infos = {}
          ELSE /\ RowsFor(files, p) = 1
               /\ \A k \in 1..Len(files) :
                     files[k].OrigPath = p => files[k].Timestamp = v.Timestamp
               /\ Cardinality(infos) = 1
               /\ \A f \in infos : f.LatestVersion = v.Timestamp

\* the prefixes a directory query is made with
DirQueries == {RootD, <<"/", "D">>}

\* C12: for every catalog, prefix d and instant t, GetFilesInDirAtTime(d, t)
\* holds one version, the latest with timestamp <= t + 1s, of exactly the
\* paths that begin with the characters of d, compared as they are, and have
\* such a version.
C12_DirIsLiteralPrefix ==
    \A d \in DirQueries, t \in WholeSeconds, p \in Paths :
       LET files == GetFilesInDirAtTime(catalog, d, t)
           latest == MaxTarih(catalog, p, t + TicksPerSec)
       IN IF IsPrefix(d, p) /\ latest # -1
          THEN /\ RowsFor(files, p) = 1
               /\ \A k \in 1..Len(files) :
                     files[k].OrigPath = p => files[k].Timestamp = latest
          ELSE RowsFor(files, p) = 0

\* every entry of the request names a resolved version and carries that
\* version's timestamp, as Format writes it
PairsOwnTimestamp(request, files) ==
    \A k \in 1..Len(request) :
       \E j \in 1..Len(files) :
          /\ request[k].HashedName = files[j].HashedName
          /\ request[k].TargetDate = FormatTargetDate(files[j].Timestamp)

\* C13: in RestoreFile, RestoreDirectory and RestoreToTime, every entry of
\* what is sent to the server pairs the HashedName of a resolved version
\* with that version's own timestamp, not with the requested time.
C13_RequestCarriesVersionTimestamp ==
    \A c \in Callers :
       call[c].op \in {"RestoreFile", "RestoreDirectory", "RestoreToTime"} =>
          PairsOwnTimestamp(call[c].request, call[c].files)

\* C14: when the catalog resolves the request of RestoreFile,
\* RestoreDirectory or RestoreToTime to no version, the operation returns
\* the not-found error with no request sent and no file written, and
\* isRunning is cleared; a restore goes past the query only with a version.
C14_EmptyResolutionStops ==
    /\ (returned.op \in {"RestoreFile", "RestoreDirectory", "RestoreToTime"}
        /\ returned.result = "notfound") =>
          /\ Len(Resolve(catalog, returned.target)) = 0
          /\ returned.request = <<>>
          /\ returned.written = {}
          /\ ~isRunning
    /\ \A c \in Callers :
          call[c].pc \in {"request", "extract", "restoring"} =>
             Len(Resolve(catalog, call[c].target)) > 0

\* a restore returns not found over a catalog that has versions
C14_Witness ==
    /\ returned.op \in {"RestoreFile", "RestoreDirectory", "RestoreToTime"}
    /\ returned.result = "notfound"
    /\ catalog # <<>>

\* C15: in RestoreFile and RestoreDirectory a member that fails to decrypt
\* does not end the operation: no such operation returns an error at the
\* member whose decryption failed.
C15_DecryptFailureContinues ==
    (returned.op \in {"RestoreFile", "RestoreDirectory"} /\ returned.result = "error")
    => (returned.log = <<>> \/ Last(returned.log) # "decryptFails")

\* caller c is at the top of its loop with a file or member still to process
LoopHasWork(c) ==
    \/ /\ call[c].op = "Run" /\ call[c].pc = "pack"
       /\ call[c].i <= Len(call[c].filesToBackup)
    \/ /\ call[c].op \in {"RestoreFile", "RestoreDirectory"} /\ call[c].pc = "extract"
       /\ call[c].i <= Len(call[c].members)
    \/ /\ call[c].op = "RestoreToTime" /\ call[c].pc = "restoring"
       /\ call[c].i <= Len(call[c].files)

\* C16: with shouldStop set, the next step of a packing loop or of a
\* restore's member loop that still has work is the return of the
\* cancelled error: no further file or member is processed.
C16_StopObservedAtBoundary ==
    [][\A c \in Callers :
          (shouldStop /\ LoopHasWork(c) /\ call'[c] # call[c]) =>
             (returned'.op = call[c].op /\ returned'.caller = c
              /\ returned'.result = "cancelled")]_vars

\* C17: a session that returns cancelled leaves the catalog as it was
\* before the session, whatever shards it has uploaded.
C17_CancelledLeavesCatalog ==
    (returned.op = "Run" /\ returned.result = "cancelled") =>
       catalog = returned.before

\* a session is cancelled after it uploaded a shard and with entries
\* gathered, over a catalog that has rows
C17_Witness ==
    /\ returned.op = "Run" /\ returned.result = "cancelled"
    /\ Len(returned.uploaded) >= 1
    /\ Len(returned.catalogEntries) >= 1
    /\ catalog # <<>>

\* C18: a session emits phase scanning only when a device is registered,
\* a passphrase is set and at least one root is configured.
C18_ScanningNeedsPreflight ==
    /\ \A c \in Callers :
          (call[c].op = "Run" /\ "scanning" \in Range(call[c].phases)) =>
             /\ config.DeviceID # 0
             /\ config.EncryptionKey # ""
             /\ Len(config.BackupDirs) >= 1
    /\ (returned.op = "Run" /\ "scanning" \in Range(returned.phases)) =>
             /\ config.DeviceID # 0
             /\ config.EncryptionKey # ""
             /\ Len(config.BackupDirs) >= 1

\* the place of a phase in the order of the session lifecycle
PhaseRank(phase) ==
    CASE phase = "starting" -> 1
      [] phase = "scanning" -> 2
      [] phase = "encrypting" -> 3
      [] phase = "uploading" -> 4
      [] phase = "updating_catalog" -> 5
      [] phase = "uploading_catalog" -> 6
      [] phase = "complete" -> 7

PhasesOrdered(phases) ==
    \A j, k \in 1..Len(phases) :
       j < k => PhaseRank(phases[j]) <= PhaseRank(phases[k])

\* C19: the phases a session emits follow the order starting, scanning,
\* encrypting, uploading, updating_catalog, uploading_catalog, complete:
\* after a later phase no earlier phase is emitted.
C19_PhasesInOrder ==
    /\ \A c \in Callers : call[c].op = "Run" => PhasesOrdered(call[c].phases)
    /\ returned.op = "Run" => PhasesOrdered(returned.phases)

\* C20: in a session that commits, the members of the uploaded shards are
\* the HashedNames of the committed entries, each in exactly one shard.
C20_MembersAreEntries ==
    (/\ returned.op = "Run"
     /\ \E k \in 1..Len(returned.log) : returned.log[k] = "commit")
    => /\ \A e \in Range(returned.catalogEntries) :
             Cardinality({k \in 1..Len(returned.uploaded) :
                \E m \in 1..Len(returned.uploaded[k]) :
                   returned.uploaded[k][m].name = e.HashedName}) = 1
       /\ \A k \in 1..Len(returned.uploaded) :
             \A m \in 1..Len(returned.uploaded[k]) :
                \E e \in Range(returned.catalogEntries) :
                   e.HashedName = returned.uploaded[k][m].name

\* the packed bytes of the first n members of a tar
RECURSIVE TarBytes(_, _)
TarBytes(members, n) ==
    IF n = 0 THEN 0
    ELSE TarBytes(members, n - 1) + EncryptFile(DecryptAndDecompress(members[n].data))

\* the tars a session has uploaded, in order: each passed maxTarSize only
\* by its last member, and each but the last is over maxTarSize
ShardsWithinBound(uploaded) ==
    /\ \A k \in 1..Len(uploaded) :
          TarBytes(uploaded[k], Len(uploaded[k]) - 1) <= maxTarSize
    /\ \A k \in 1..(Len(uploaded) - 1) :
          TarBytes(uploaded[k], Len(uploaded[k])) > maxTarSize

\* C21: in every uploaded shard the packed sizes of the members but the last
\* one added sum to at most maxTarSize, and every shard of a session but its
\* final one has a total packed size over maxTarSize.
C21_ShardSizeBound ==
    /\ \A c \in Callers : ShardsWithinBound(call[c].uploaded)
    /\ returned.op = "Run" => ShardsWithinBound(returned.uploaded)

\* a session has returned after uploading a shard of two members, the
\* second of which took it over maxTarSize
C21_Witness ==
    /\ returned.op = "Run" /\ returned.result = "ok"
    /\ \E k \in 1..Len(returned.uploaded) :
          /\ Len(returned.uploaded[k]) = 2
          /\ TarBytes(returned.uploaded[k], 2) > maxTarSize

\* what C22 promises of a returned session: no shard, the catalog as it
\* was, phase complete last, and no file to back up
NothingDone ==
    /\ returned.result = "ok"
    /\ returned.uploaded = <<>>
    /\ catalog = returned.before
    /\ Last(returned.phases) = "complete"
    /\ Len(returned.filesToBackup) = 0

C23_SuccessUploadsSnapshot ==
    (returned.op = "Run" /\ returned.result = "ok") =>
       /\ CountOf(returned.log, "snapshot") = 1
       /\ server.catalogs # <<>>
       /\ SnapshotRows(Last(server.catalogs)) = catalog

Snapshots ==
    {ExportToFile(catalog)} \cup
    {SnapshotRows(server.catalogs[k]) : k \in 1..Len(server.catalogs)}

\* C25: ImportFromFile is idempotent: importing a snapshot twice gives the
\* same rows, with the same multiplicities, as importing it once, and
\* importing a snapshot of the catalog into the catalog leaves it unchanged.
C25_ImportIdempotent ==
    /\ \A S \in Snapshots :
          SameBag(ImportFromFile(ImportFromFile(catalog, S, 0), S, 0),
                  ImportFromFile(catalog, S, 0))
    /\ SameBag(ImportFromFile(catalog, ExportToFile(catalog), 0), catalog)

\* every snapshot on the server is part of the newest one: the snapshots
\* of one catalog that only grew
SnapshotsOfOneCatalog ==
    \A k \in 1..Len(server.catalogs) :
       SubBag(SnapshotRows(server.catalogs[k]), SnapshotRows(Last(server.catalogs)))

\* C26: when RecoverCatalog has run on an empty catalog that nothing else
\* cleared or added a version to meanwhile, over the snapshots of the
\* sessions of one device, the catalog holds the rows of the catalog after
\* the last session, each as many times as there.
C26_RecoveryRestoresCatalog ==
    [][(/\ recov.pc = "loop" /\ recov'.pc = "done"
        /\ recov.intoEmpty
        /\ \A c \in Callers : call[c].pc \in {"idle", "done"}
        /\ server.catalogs # <<>>
        /\ SnapshotsOfOneCatalog
        /\ Range(catalog) \subseteq Range(SnapshotRows(Last(server.catalogs))))
       => SameBag(catalog', SnapshotRows(Last(server.catalogs)))]_vars


\* the entries of a session that some read query on catalog cat returns:
\* as the latest version of the path, in its history, among the files at
\* the session's time or in the listing at that time
Visible(cat, entries) ==
    {e \in Range(entries) :
        \/ GetLatestVersion(cat, e.OrigPath) = e
        \/ FileVersion(e) \in GetFileHistory(cat, e.OrigPath)
        \/ e \in Range(GetFilesAtTime(cat, e.Timestamp))
        \/ \E info \in GetFilesAtTimestamp(cat, e.Timestamp) :
              info.OrigPath = e.OrigPath /\ info.LatestVersion = e.Timestamp}

AllOrNone(cat, entries) == Visible(cat, entries) \in {{}, Range(entries)}

\* C27: a read query on the catalog while a backup session runs returns no
\* FileVersion of that session, nor the session's date, before the session's
\* AddEntries, and after AddEntries has returned it returns all of the
\* session's FileVersions or none, never some.
C27_ReadsSeeWholeSessions ==
    /\ \A c \in Callers :
          /\ (call[c].op = "Run" /\ call[c].pc \in {"pack", "rollover", "commit"})
                => /\ Visible(catalog, call[c].catalogEntries) = {}
                   /\ call[c].timestamp \notin GetBackupDates(catalog)
          /\ (call[c].op = "Run" /\ call[c].pc = "snapshot")
                => AllOrNone(catalog, call[c].catalogEntries)
    /\ returned.op = "Run" => AllOrNone(catalog, returned.catalogEntries)

\* a session of two entries has committed into a catalog that held rows,
\* and the reads return both
C27_Witness ==
    \E c \in Callers :
        /\ call[c].op = "Run" /\ call[c].pc = "snapshot"
        /\ Len(call[c].catalogEntries) = 2
        /\ Len(catalog) > 2
        /\ Visible(catalog, call[c].catalogEntries) = Range(call[c].catalogEntries)


\* every session so far has committed its versions and none is running
SessionsCommitted ==
    /\ \A c \in Callers : call[c].op = "Run" => call[c].pc \in {"idle", "done"}
    /\ \A k \in 1..Len(sessions) : sessions[k].timestamp \in GetBackupDates(catalog)

\* the version of path p of the most recent session at or before second t
VersionAt(cat, p, t) ==
    TopByTime({r \in Range(cat) :
        r.OrigPath = p /\ FormatSessionID(r.Timestamp) <= FormatSessionID(t)})

\* the members named for path p in the server's answer to the request of
\* restore target tg
Restored(cat, srv, tg, p) ==
    {m \in RestoreFilesFound(srv, RestoreFilesRequest(Resolve(cat, tg))) :
        m.name = HashPath(p)}

\* the restore of tg yields for path p the bytes of version v and no others
YieldsVersion(cat, srv, tg, p, v) ==
    LET ms == Restored(cat, srv, tg, p)
    IN IF v = NoEntry THEN ms = {}
       ELSE /\ ms # {}
            /\ \A m \in ms : m.whole /\ HashFileContent(DecryptAndDecompress(m.data)) = v.ContentHash

\* C28: after committed sessions with distinct whole-second timestamps,
\* RestoreFile of a path and RestoreDirectory of its directory at second t
\* get from the server the bytes of the version of the most recent session
\* at or before t, and of no other version.
C28_RestoreYieldsVersionAt ==
    (DistinctSeconds /\ SessionsCommitted) =>
       \A p \in Paths, t \in WholeSeconds :
          /\ YieldsVersion(catalog, server,
                 [op |-> "RestoreFile", path |-> p, time |-> t], p,
                 VersionAt(catalog, p, t))
          /\ YieldsVersion(catalog, server,
                 [op |-> "RestoreDirectory", path |-> DirOf(p), time |-> t], p,
                 VersionAt(catalog, p, t))


\* the sealed catalog files the server holds, by the session that named them
SnapshotFiles(srv) ==
    {[SessionID |-> srv.catalogs[k].SessionID, sealed |-> srv.catalogs[k].sealed] :
        k \in 1..Len(srv.catalogs)}

PathHashes == {HashPath(p) : p \in Paths}
IsSealed(x) == x = CompressAndEncrypt(DecryptAndDecompress(x))

\* a restore request names its files by their hashes and a date
OpaqueRequest(req) ==
    \A k \in 1..Len(req) :
       /\ DOMAIN req[k] = {"HashedName", "TargetDate"}
       /\ req[k].HashedName \in PathHashes
       /\ req[k].TargetDate \in (-1)..MaxTime

\* C30: what the client has sent to the server holds a path only as its
\* hash and a content only sealed: every member of every shard is named by
\* a path hash and its payload is sealed, every snapshot is sealed, and
\* every restore request holds path hashes and dates only.
C30_ServerSeesHashesAndSealedBytes ==
    /\ \A x \in server.shards :
          /\ DOMAIN x = {"SessionID", "part", "members"}
          /\ x.SessionID \in 0..MaxTime /\ x.part \in 1..(2 * Cardinality(Paths))
          /\ \A m \in Range(x.members) :
                m.name \in PathHashes /\ IsSealed(m.data)
    /\ \A k \in 1..Len(server.catalogs) :
          /\ DOMAIN server.catalogs[k] = {"SessionID", "sealed"}
          /\ IsSealed(server.catalogs[k].sealed)
    /\ \A c \in Callers : OpaqueRequest(call[c].request)
    /\ returned.op \in RestoreOps => OpaqueRequest(returned.request)

\* a restore has sent its request to a server that holds a shard and a
\* snapshot
C30_Witness ==
    /\ returned.op \in {"RestoreFile", "RestoreDirectory"}
    /\ returned.request # <<>>
    /\ server.catalogs # <<>>
    /\ \E x \in server.shards : Len(x.members) = 2


\* the names of the members of a sequence of uploaded tars
UploadedNames(uploaded) ==
    {m.name : m \in UNION {Range(uploaded[k]) : k \in 1..Len(uploaded)}}

\* an earlier session than the one that stamps ts has committed versions
\* that catalog cat holds, and the server has no snapshot of that session
EarlierSessionWithoutSnapshot(cat, ts) ==
    \E k \in 1..Len(sessions) :
       /\ sessions[k].timestamp # ts
       /\ sessions[k].timestamp \in GetBackupDates(cat)
       /\ \A j \in 1..Len(server.catalogs) :
             server.catalogs[j].SessionID # sessions[k].backupID

\* a session whose snapshot step failed returns an error with all its
\* versions in the catalog
CommitOutlivesSnapshotFailure ==
    (/\ returned.op = "Run" /\ returned.result = "error"
     /\ Len(returned.log) > 0 /\ Last(returned.log) = "commit")
    => /\ returned.catalogEntries # <<>>
       /\ catalog = returned.before \o returned.catalogEntries

C32_OneInstantForSession ==
    \A c \in Callers :
       (call[c].op = "Run" /\ call[c].timestamp # -1) =>
          /\ \A e \in Range(call[c].catalogEntries) :
                e.Timestamp = call[c].timestamp
          /\ FormatSessionID(call[c].timestamp) = call[c].backupID


\* C33: the shards a backup session has uploaded are its parts 1, 2, ..., n
\* in this order, each on the server under its number and none of them
\* empty; the tar that is open when the loop ends is uploaded only when it
\* has content, so the empty tar opened by a rollover at the last file is
\* not uploaded.
C33_ShardsNumberedInOrder ==
    /\ \A x \in server.shards : \E m \in Range(x.members) : m.whole
    /\ \A c \in Callers :
          call[c].op = "Run" =>
             /\ \A k \in 1..Len(call[c].uploaded) :
                   /\ \E m \in Range(call[c].uploaded[k]) : m.whole
                   /\ \E x \in server.shards :
                         x.SessionID = call[c].backupID /\ x.part = k
             /\ call[c].pc \in {"pack", "rollover"} =>
                   call[c].tarPart = Len(call[c].uploaded) + 1
             /\ call[c].pc \in {"commit", "snapshot"} =>
                   Len(call[c].uploaded) =
                      IF call[c].tarSize > 0 THEN call[c].tarPart
                      ELSE call[c].tarPart - 1

\* the last file of a session has made the tar too big: two parts are
\* uploaded and the third, empty, is not
C33_Witness ==
    \E c \in Callers :
       /\ call[c].op = "Run" /\ call[c].pc = "commit"
       /\ call[c].tarPart = 3 /\ call[c].tarSize = 0
       /\ Len(call[c].uploaded) = 2


\* the names of file f: its path, and its path from the working directory
NamesOf(f) == {f, Tail(f)}

\* no two elements of a sequence of paths name the same file
OnePerFile(paths) ==
    \A j, k \in 1..Len(paths) :
       j # k => ~\E f \in Paths : paths[j] \in NamesOf(f) /\ paths[k] \in NamesOf(f)

RECURSIVE Flatten(_)
Flatten(tars) == IF tars = <<>> THEN <<>> ELSE Head(tars) \o Flatten(Tail(tars))

\* the members a session has written so far, uploaded or in the open tar
SessionMembers(c) ==
    Flatten(call[c].uploaded) \o
    (IF call[c].pc \in {"pack", "rollover"} THEN call[c].tar ELSE <<>>)

\* C34: when the roots of a backup session overlap, each file has at most
\* one change record, at most one FileVersion and at most one shard member
\* in that session.
C34_OneRecordPerFile ==
    \A c \in Callers :
       call[c].op = "Run" =>
          /\ OnePerFile([k \in 1..Len(call[c].filesToBackup) |->
                            call[c].filesToBackup[k].path])
          /\ OnePerFile([k \in 1..Len(call[c].catalogEntries) |->
                            call[c].catalogEntries[k].OrigPath])
          /\ OnePerFile([k \in 1..Len(SessionMembers(c)) |->
                            SessionMembers(c)[k].name[2]])

\* a session over a root given in absolute and in relative form has come
\* to both files twice and has two entries to commit
C34_Witness ==
    \E c \in Callers :
       /\ config.BackupDirs = <<RootD, RelD>>
       /\ call[c].op = "Run" /\ call[c].pc = "commit"
       /\ Len(call[c].catalogEntries) = 2
       /\ Len(SessionMembers(c)) = 2


C36_FlagClearedOnEveryExit ==
    /\ [](/\ (returned.op # "none" /\ returned.result # "busy") =>
               ~isRunning /\ Active = {}
          /\ Active = {} => ~isRunning)
    /\ [][\A c \in Callers :
            (Active = {} /\ call[c].pc = "idle" /\ call'[c].pc # "idle") =>
               /\ c \in Active'
               /\ isRunning'
               /\ returned' = NoReturn]_vars

\* a session that was admitted has returned without its commit (an error
\* or a cancellation after the scan), and the call made after it has passed
\* the guard
C36_Witness ==
    \E c, d \in Callers :
       /\ call[c] = DoneCall
       /\ sessions # <<>> /\ catalog = <<>>
       /\ call[d].op = "Run" /\ call[d].pc = "preflight"
       /\ isRunning


\* C37: a request rejected as busy leaves the progress subscriber of the
\* running session alone: whatever operation is active, emitProgress calls
\* the sink that was installed for it when it started.
C37_SinkOfRunningSession ==
    \A c \in Active : OnProgress = EventOf(call[c].op)


\* C38: a Stop issued while no session runs has no effect on the next
\* session: every admitted operation starts with shouldStop clear, only
\* Stop sets it, and an operation returns cancelled only from a state in
\* which it is active and shouldStop is set, that is after a Stop that
\* came after its entry.
C38_StaleStopCancelsNothing ==
    [][/\ \A c \in Callers :
            (call[c].pc = "idle" /\ c \in Active') => ~shouldStop'
       /\ (~shouldStop /\ shouldStop') => (call' = call /\ isRunning' = isRunning)
       /\ (returned'.op # "none" /\ returned'.result = "cancelled") =>
            (shouldStop /\ returned'.caller \in Active)
      ]_vars

\* Stop was issued with no operation running and the flag is still set when
\* the next call is about to enter
C38_Witness ==
    /\ shouldStop
    /\ Active = {} /\ ~isRunning
    /\ \E c \in Callers : call[c].pc = "idle"


\* the resolved set V of a restore: the names of the versions the catalog
\* query gave
ResolvedNames(c) == {f.HashedName : f \in Range(call[c].files)}

\* every member the server stores: what an answer could hold
StoredMembers == UNION {Range(x.members) : x \in server.shards}

====
